---------------------------- MODULE Spec2Model ----------------------------
(***************************************************************************)
(* SECEdgarReader (src/readers/SECEdgarReader.py): the load_data pipeline, *)
(* the CIK resolver's pattern match, the accession-number conversions and  *)
(* the rate limiting of the three network-calling methods.                 *)
(*                                                                         *)
(* Python strings that the code slices, pads or scans are sequences of     *)
(* one-character strings.  A dict is a function whose DOMAIN is its keys.  *)
(***************************************************************************)
EXTENDS Naturals, Integers, Sequences, FiniteSets, TLC

VARIABLES
    \* ---- load_data pipeline
    environ,          \* os.environ restricted to the two SEC_API_* names
    load_kwargs,      \* **load_kwargs of load_data
    pc,               \* position of the running call
    session,          \* the requests.Session of _get_session (its headers)
    cik,              \* local `cik` of load_data
    forms_descriptor, \* local `forms_descriptor` of load_data
    documents,        \* local `documents` of load_data
    idx,              \* loop variable `i` of load_data (1-based)
    requests,         \* every session.get issued so far, in order
    returned,         \* what load_data returned to its caller
    err,              \* the exception that left load_data
    \* ---- pure helpers under test
    body,             \* response.text handed to the resolver's pattern
    results,          \* cik_re.findall(response.text)
    resolved,         \* outcome of `str(results[0])`
    accIn,            \* an accession number
    accDashed,        \* _add_dashes(accIn)
    accOut,           \* _drop_dashes(accDashed)
    \* ---- rate limiting
    clock,            \* the limiter's clock, in ticks
    limiter,          \* last_reset and num_calls of each decorated method
    executed,         \* how often each method's body ran, per tick
    caller            \* where the calling thread is

pipeVars == <<environ, load_kwargs, pc, session, cik, forms_descriptor,
              documents, idx, requests, returned, err>>
resVars  == <<body, results, resolved>>
accVars  == <<accIn, accDashed, accOut>>
rateVars == <<clock, limiter, executed, caller>>
vars     == <<pipeVars, resVars, accVars, rateVars>>

-----------------------------------------------------------------------------
(* Bounds of the model *)

MaxN == 3        \* entries in filings.recent
MaxK == 2        \* largest k_forms passed
MaxSegs == 3     \* segments a search response body is built from
MaxAccLen == 20  \* longest accession number tried
MaxTime == 3     \* last tick of the rate limiter's clock
MaxRuns == 2     \* calls of load_data under the rate limiter
TicksPerSecond == 2   \* resolution of the rate limiter's clock

-----------------------------------------------------------------------------
(* Characters and strings *)

Digits == <<"0", "1", "2", "3", "4", "5", "6", "7", "8", "9">>

IsDigit(c) == \E d \in 1..Len(Digits) : Digits[d] = c

Max(S) == CHOOSE x \in S : \A y \in S : y <= x

\* s[a:b] of Python (0-based, end exclusive, clipped to the string)
Slice(s, a, b) ==
    LET lo == IF a < Len(s) THEN a ELSE Len(s)
        hi == IF b < Len(s) THEN b ELSE Len(s)
    IN  IF hi <= lo THEN << >> ELSE SubSeq(s, lo + 1, hi)

\* s[a:] of Python
SliceFrom(s, a) == Slice(s, a, Len(s))

\* s.replace(c, "") for a one-character c
RECURSIVE RemoveChar(_, _)
RemoveChar(s, c) ==
    IF s = << >> THEN << >>
    ELSE IF Head(s) = c THEN RemoveChar(Tail(s), c)
         ELSE <<Head(s)>> \o RemoveChar(Tail(s), c)

Zeros(n) == [j \in 1..n |-> "0"]

\* str.zfill(width): pads on the left with "0", after a leading sign; a string
\* already `width` long or longer is returned unchanged
ZFill(s, width) ==
    IF Len(s) >= width THEN s
    ELSE IF s # << >> /\ Head(s) \in {"+", "-"}
         THEN <<Head(s)>> \o Zeros(width - Len(s)) \o Tail(s)
         ELSE Zeros(width - Len(s)) \o s


-----------------------------------------------------------------------------
(* Accession numbers: _add_dashes, _drop_dashes *)

AccessionWidth == 18

\* the three slices with the last one starting a character early
_add_dashes_overlap(accession_number) ==
    Slice(accession_number, 0, 10) \o <<"-">>
        \o Slice(accession_number, 10, 12) \o <<"-">>
        \o SliceFrom(accession_number, 11)

\* f"{accession_number[:10]}-{accession_number[10:12]}-{accession_number[12:]}"
_add_dashes(accession_number) ==
    Slice(accession_number, 0, 10) \o <<"-">>
        \o Slice(accession_number, 10, 12) \o <<"-">>
        \o SliceFrom(accession_number, 12)

\* the conversion without its zfill
_drop_dashes_nopad(accession_number) == RemoveChar(accession_number, "-")

\* str(accession_number).replace("-", "").zfill(18)
_drop_dashes(accession_number) ==
    ZFill(RemoveChar(accession_number, "-"), AccessionWidth)

-----------------------------------------------------------------------------
(* The resolver's pattern: re.compile(r".*CIK=(\d{10}).*").findall(text) *)

CikDigits == 10

Literal == <<"C", "I", "K", "=">>

\* "CIK=" followed by ten digits starts at position p of text (1-based)
OccursAt(text, p) ==
    /\ p + Len(Literal) + CikDigits - 1 <= Len(text)
    /\ \A j \in 1..Len(Literal) : text[p + j - 1] = Literal[j]
    /\ \A j \in 1..CikDigits : IsDigit(text[p + Len(Literal) + j - 1])

Group(text, p) == SubSeq(text, p + Len(Literal), p + Len(Literal) + CikDigits - 1)

\* first position >= q holding a newline, or Len(text) + 1: "." stops there
LineEnd(text, q) ==
    LET nl == {p \in q..Len(text) : text[p] = "\n"}
    IN  IF nl = {} THEN Len(text) + 1 ELSE CHOOSE p \in nl : \A r \in nl : p <= r

\* The scan of findall from position q.  A match attempt at q lets the leading
\* ".*" run to the end of the line and back off until "CIK=" and ten digits
\* follow, so it takes the rightmost occurrence of the line; the trailing ".*"
\* then runs to the end of the line, where the next attempt starts.
RECURSIVE Scan(_, _)
Scan(text, q) ==
    IF q > Len(text) THEN << >>
    ELSE LET e    == LineEnd(text, q)
             occs == {p \in q..(e - 1) : OccursAt(text, p)}
         IN  IF occs = {} THEN Scan(text, e + 1)
             ELSE <<Group(text, Max(occs))>> \o Scan(text, e)

FindAll(text) == Scan(text, 1)

\* results = cik_re.findall(response.text); return str(results[0])
CikFromText(text) ==
    LET found == FindAll(text)
    IN  IF found = << >>
        THEN [raised |-> "IndexError", value |-> << >>]
        ELSE [raised |-> "", value |-> found[1]]

-----------------------------------------------------------------------------
(* Inputs of load_data: the environment, the keyword arguments and what the
   remote service answers *)

FORM_TYPE_ALL == "FORM_TYPE_ALL"
SEC_ARCHIVE_URL == "https://www.sec.gov/Archives/edgar/data"
SEC_SEARCH_URL == "http://www.sec.gov/cgi-bin/browse-edgar"
SEC_SUBMISSIONS_URL == "https://data.sec.gov/submissions"

None == "None"

EmptyDict == [k \in {} |-> None]

EnvNames == {"SEC_API_ORGANIZATION", "SEC_API_EMAIL"}

\* every environment: each name unset, set to "" or set to a value
Environs == UNION {[S -> {"", "set"}] : S \in SUBSET EnvNames}

\* os.environ.get(name)
EnvGet(env, name) == IF name \in DOMAIN env THEN env[name] ELSE None

\* truth value of an Optional[str]
Truthy(v) == v # None /\ v # ""

FormTypes == {"6-K", "10-K"}

KwargSets ==
    {t @@ f @@ k :
        t \in {EmptyDict, [ticker |-> "SSYS"]},
        f \in {EmptyDict} \cup {[form_type |-> x] : x \in FormTypes},
        k \in {EmptyDict} \cup {[k_forms |-> n] : n \in 0..MaxK}}

ID1 == <<"0", "0", "0", "1", "2", "0", "6", "1", "3", "3">>
ID2 == <<"0", "0", "0", "0", "3", "2", "0", "1", "9", "3">>

Occurrence(id) == Literal \o id

\* response.text of the search page, for the pipeline
SearchTexts ==
    { <<"<", "p", ">">>,
      Occurrence(ID1),
      Occurrence(ID1) \o <<"&">> \o Occurrence(ID2),
      Occurrence(ID2) \o <<"\n">> \o Occurrence(ID1) }

\* outcome of a session.get and its raise_for_status: a success status, a
\* non-success status (HTTPError) or no response at all (ConnectionError)
Failures == {"http_error", "network_error"}

TransportError(status) == IF status = "http_error" THEN "HTTPError" ELSE "ConnectionError"

SearchResponses ==
    {[status |-> st, text |-> << >>] : st \in Failures}
        \cup {[status |-> "ok", text |-> t] : t \in SearchTexts}

\* accession numbers a filing index may carry: the service's dashed form of an
\* 18-digit number, a short one, and one longer than 18 digits
Acc18 == [j \in 1..AccessionWidth |-> Digits[(j % 10) + 1]]
AccShort == <<"4", "2", "-", "7">>
AccLong == [j \in 1..(AccessionWidth + 1) |-> Digits[((j + 4) % 10) + 1]]
AccChoices == {_add_dashes(Acc18), AccShort, AccLong}

Entries == [form : FormTypes, accessionNumber : AccChoices]

EntryLists == UNION {[1..n -> Entries] : n \in 0..MaxN}

\* the JSON object of the submissions endpoint with the given filings
Descriptor(cikField, entries) ==
    [cik |-> cikField,
     name |-> "Stratasys Ltd.",
     tickers |-> <<"SSYS">>,
     exchanges |-> <<"Nasdaq">>,
     fiscalYearEnd |-> "1231",
     stateOfIncorporationDescription |-> "Israel",
     filings |-> [recent |->
        [form |-> [j \in 1..Len(entries) |-> entries[j].form],
         accessionNumber |-> [j \in 1..Len(entries) |-> entries[j].accessionNumber],
         filingDate |-> [j \in 1..Len(entries) |-> "2024-01-01"],
         primaryDocument |-> [j \in 1..Len(entries) |-> j]]]]

\* the same object without its "name" key
WithoutName(d) == [k \in DOMAIN d \ {"name"} |-> d[k]]

\* content of the submissions response: well-formed objects, one that lacks a
\* key, one whose "tickers" list is empty
IndexContents ==
    {Descriptor(c, es) : c \in {ID1, ID2}, es \in EntryLists}
        \cup {WithoutName(Descriptor(ID1, << >>)),
              [Descriptor(ID1, << >>) EXCEPT !.tickers = << >>]}

NoDescriptor == Descriptor(<< >>, << >>)

IndexResponses ==
    {[status |-> st, json |-> FALSE, content |-> NoDescriptor] : st \in Failures}
        \cup {[status |-> "ok", json |-> FALSE, content |-> NoDescriptor]}
        \cup {[status |-> "ok", json |-> TRUE, content |-> c] : c \in IndexContents}

FilingResponses ==
    {[status |-> st, text |-> ""] : st \in Failures}
        \cup {[status |-> "ok", text |-> "<html>"]}

-----------------------------------------------------------------------------
(* load_data and the methods it calls *)

NoErr == [kind |-> "", cause |-> ""]
NoReturn == [set |-> FALSE, docs |-> << >>]
NoSession == [headers |-> EmptyDict]

\* _get_session with its two assert statements left out
_get_session_unchecked(company, email) ==
    LET c == IF company = None THEN EnvGet(environ, "SEC_API_ORGANIZATION") ELSE company
        e == IF email = None THEN EnvGet(environ, "SEC_API_EMAIL") ELSE email
    IN  [raised |-> "",
         value |-> [headers |-> ("User-Agent" :> <<c, " ", e>>)
                                   @@ ("Content-Type" :> "text/html")]]

\* _get_session(): both values come from the environment when not passed;
\* `assert company`, `assert email`; then the session with its two headers
_get_session(company, email) ==
    LET c == IF company = None THEN EnvGet(environ, "SEC_API_ORGANIZATION") ELSE company
        e == IF email = None THEN EnvGet(environ, "SEC_API_EMAIL") ELSE email
    IN  IF ~Truthy(c) \/ ~Truthy(e)
        THEN [raised |-> "AssertionError", value |-> NoSession]
        ELSE [raised |-> "",
              value |-> [headers |-> ("User-Agent" :> <<c, " ", e>>)
                                        @@ ("Content-Type" :> "text/html")]]

\* f"{SEC_SEARCH_URL}?CIK={cik}&Find=Search&owner=exclude&action=getcompany"
_search_url(t) ==
    [base |-> SEC_SEARCH_URL, CIK |-> t, Find |-> "Search", owner |-> "exclude",
     action |-> "getcompany"]

\* f"{SEC_SUBMISSIONS_URL}/CIK{cik}.json"
SubmissionsUrl(c) == [base |-> SEC_SUBMISSIONS_URL, json_name |-> <<"CIK", c, ".json">>]

\* f"{SEC_ARCHIVE_URL}/{cik}/{accession_number}/{filename}" after _drop_dashes
_archive_url(c, accession_number, filename) ==
    [base |-> SEC_ARCHIVE_URL, cik |-> c,
     accession_number |-> _drop_dashes(accession_number), filename |-> filename]

Recent(fd) == fd.filings.recent

n_filings(fd) == Len(Recent(fd).accessionNumber)

\* form_type of load_data, FORM_TYPE_ALL when not passed
FormTypeArg(kw) == IF "form_type" \in DOMAIN kw THEN kw.form_type ELSE FORM_TYPE_ALL

\* the filter with its comparison inverted
Matches_inverted(form_type, _form_type) ==
    form_type = FORM_TYPE_ALL \/ _form_type # form_type

\* form_type == FORM_TYPE_ALL or _form_type == form_type
Matches(form_type, _form_type) == form_type = FORM_TYPE_ALL \/ _form_type = form_type

\* len(documents) >= k_forms, where k_forms is float('inf') when not passed
ReachedCount(docs, kw) == "k_forms" \in DOMAIN kw /\ Len(docs) >= kw.k_forms

\* the exception the reads of base_metadata / filings raise, "" when none
MetadataError(fd) ==
    IF {"cik", "name", "tickers"} \ DOMAIN fd # {} THEN "KeyError"
    ELSE IF fd.tickers = << >> THEN "IndexError"
    ELSE IF "exchanges" \notin DOMAIN fd THEN "KeyError"
    ELSE IF fd.exchanges = << >> THEN "IndexError"
    ELSE IF {"fiscalYearEnd", "stateOfIncorporationDescription", "filings"} \ DOMAIN fd # {}
         THEN "KeyError"
    ELSE ""

base_metadata(fd) ==
    [cik |-> fd.cik,
     company_name |-> fd.name,
     company_ticker |-> fd.tickers[1],
     exchange |-> fd.exchanges[1],
     fiscal_year_end |-> fd.fiscalYearEnd,
     state_of_incorporation |-> fd.stateOfIncorporationDescription]

form_metadata(fd, i) ==
    [form_type |-> Recent(fd).form[i],
     accession_number |-> Recent(fd).accessionNumber[i],
     filing_date |-> Recent(fd).filingDate[i],
     filing_name |-> Recent(fd).primaryDocument[i]]

\* Document(text = form, metadata = base_metadata | form_metadata)
Document(text, fd, i) == [text |-> text, metadata |-> base_metadata(fd) @@ form_metadata(fd, i)]

\* the content fetch keyed by the index's own "cik" field
FilingUrl_indexCik(c, fd, i) ==
    _archive_url(fd.cik, _drop_dashes(form_metadata(fd, i).accession_number),
                 form_metadata(fd, i).filing_name)

\* the URL of self._get_filing(session, cik, self._drop_dashes(accession_number), filing_name)
FilingUrl(c, fd, i) ==
    _archive_url(c, _drop_dashes(form_metadata(fd, i).accession_number),
                 form_metadata(fd, i).filing_name)

Raise(kind, cause) ==
    /\ pc' = "failed"
    /\ err' = [kind |-> kind, cause |-> cause]

\* lines 24-30: the ticker check and the session
Call ==
    /\ pc = "call"
    /\ IF "ticker" \notin DOMAIN load_kwargs
       THEN Raise("ValueError", "usage") /\ UNCHANGED session
       ELSE LET s == _get_session(None, None)
            IN  IF s.raised # ""
                THEN Raise(s.raised, "config") /\ UNCHANGED session
                ELSE pc' = "resolve" /\ session' = s.value /\ UNCHANGED err
    /\ UNCHANGED <<environ, load_kwargs, cik, forms_descriptor, documents, idx,
                   requests, returned>>
    /\ UNCHANGED <<resVars, accVars, rateVars>>

\* line 31: _get_cik_by_ticker
Resolve ==
    /\ pc = "resolve"
    /\ \E resp \in SearchResponses :
         /\ requests' = Append(requests,
                [op |-> "_get_cik_by_ticker", url |-> _search_url(load_kwargs.ticker),
                 entry |-> 0, failed |-> resp.status # "ok"])
         /\ IF resp.status # "ok"
            THEN Raise(TransportError(resp.status), "transport") /\ UNCHANGED cik
            ELSE LET r == CikFromText(resp.text)
                 IN  IF r.raised # ""
                     THEN Raise(r.raised, "notfound") /\ UNCHANGED cik
                     ELSE pc' = "index" /\ cik' = r.value /\ UNCHANGED err
    /\ UNCHANGED <<environ, load_kwargs, session, forms_descriptor, documents, idx,
                   returned>>
    /\ UNCHANGED <<resVars, accVars, rateVars>>

\* return documents
Return(docs) ==
    /\ pc' = "done"
    /\ returned' = [set |-> TRUE, docs |-> docs]

\* lines 32-45: _get_forms_by_cik, base_metadata, filings, n_filings; a filing
\* index without entries goes through the loop and returns at once
FetchIndex ==
    /\ pc = "index"
    /\ \E resp \in IndexResponses :
         /\ requests' = Append(requests,
                [op |-> "_get_forms_by_cik", url |-> SubmissionsUrl(cik),
                 entry |-> 0, failed |-> resp.status # "ok"])
         /\ IF resp.status # "ok"
            THEN Raise(TransportError(resp.status), "transport")
                    /\ UNCHANGED <<forms_descriptor, documents, idx, returned>>
            ELSE IF ~resp.json
            THEN Raise("JSONDecodeError", "malformed")
                    /\ UNCHANGED <<forms_descriptor, documents, idx, returned>>
            ELSE IF MetadataError(resp.content) # ""
            THEN Raise(MetadataError(resp.content), "malformed")
                    /\ forms_descriptor' = resp.content
                    /\ UNCHANGED <<documents, idx, returned>>
            ELSE /\ forms_descriptor' = resp.content
                 /\ documents' = << >>
                 /\ UNCHANGED err
                 /\ IF n_filings(resp.content) = 0
                    THEN Return(<< >>) /\ UNCHANGED idx
                    ELSE pc' = "loop" /\ idx' = 1 /\ UNCHANGED returned
    /\ UNCHANGED <<environ, load_kwargs, session, cik>>
    /\ UNCHANGED <<resVars, accVars, rateVars>>

\* end of one iteration: break, or the next entry, or the end of the range
Advance(docs, break) ==
    IF break \/ idx >= n_filings(forms_descriptor)
    THEN Return(docs) /\ UNCHANGED idx
    ELSE pc' = "loop" /\ idx' = idx + 1 /\ UNCHANGED returned

\* lines 47-49, 61-62: the entry's form type is not the requested one
IterSkip ==
    /\ pc = "loop"
    /\ ~Matches(FormTypeArg(load_kwargs), Recent(forms_descriptor).form[idx])
    /\ Advance(documents, FALSE)
    /\ UNCHANGED <<environ, load_kwargs, session, cik, forms_descriptor, documents,
                   requests, err>>
    /\ UNCHANGED <<resVars, accVars, rateVars>>

\* a failed content fetch caught inside the loop, which goes on
GetFilingSwallows(status) ==
    /\ Advance(documents, FALSE)
    /\ UNCHANGED <<documents, err>>

\* the exception of session.get / raise_for_status in _get_filing leaves load_data
GetFilingRaises(status) ==
    /\ Raise(TransportError(status), "transport")
    /\ UNCHANGED <<documents, idx, returned>>

\* lines 50-60: the entry matches; _get_filing, append, the k_forms test
IterFetch ==
    /\ pc = "loop"
    /\ Matches(FormTypeArg(load_kwargs), Recent(forms_descriptor).form[idx])
    /\ \E resp \in FilingResponses :
         /\ requests' = Append(requests,
                [op |-> "_get_filing", url |-> FilingUrl(cik, forms_descriptor, idx),
                 entry |-> idx, failed |-> resp.status # "ok"])
         /\ IF resp.status # "ok"
            THEN GetFilingRaises(resp.status)
            ELSE /\ documents' = Append(documents, Document(resp.text, forms_descriptor, idx))
                 /\ Advance(documents', ReachedCount(documents', load_kwargs))
                 /\ UNCHANGED err
    /\ UNCHANGED <<environ, load_kwargs, session, cik, forms_descriptor>>
    /\ UNCHANGED <<resVars, accVars, rateVars>>

Ops == {"_get_cik_by_ticker", "_get_forms_by_cik", "_get_filing"}

RateIdle ==
    /\ clock = 0
    /\ limiter = [op \in Ops |-> [last_reset |-> 0, num_calls |-> 0]]
    /\ executed = [op \in Ops |-> [t \in 0..MaxTime |-> 0]]
    /\ caller = [at |-> "idle", sleeping |-> FALSE, wake |-> 0, runs |-> 0]

PipeIdle ==
    /\ session = NoSession
    /\ cik = << >>
    /\ forms_descriptor = NoDescriptor
    /\ documents = << >>
    /\ idx = 0
    /\ requests = << >>
    /\ returned = NoReturn
    /\ err = NoErr

NoResult == [raised |-> "", value |-> << >>]

ResIdle == body = << >> /\ results = << >> /\ resolved = NoResult

AccIdle == accDashed = << >> /\ accOut = << >>

Init ==
    /\ environ \in Environs
    /\ load_kwargs \in KwargSets
    /\ pc = "call"
    /\ PipeIdle
    /\ ResIdle
    /\ accIn = << >> /\ AccIdle
    /\ RateIdle

Next == Call \/ Resolve \/ FetchIndex \/ IterSkip \/ IterFetch

Spec == Init /\ [][Next]_vars

-----------------------------------------------------------------------------
(* @sleep_and_retry @limits(calls=10, period=1) on _get_cik_by_ticker,
   _get_forms_by_cik and _get_filing.  Each `limits(...)` is its own decorator
   object of the ratelimit package, with its own last_reset and num_calls:

     wrapper of limits:   period_remaining = period - (clock() - last_reset)
                          if period_remaining <= 0: num_calls = 0; last_reset = clock()
                          num_calls += 1
                          if num_calls > clamped_calls: raise RateLimitException(period_remaining)
                          return func(...)
     sleep_and_retry:     while True: try: return func(...)
                          except RateLimitException as e: time.sleep(e.period_remaining)

   Time is counted in ticks, TicksPerSecond of them to the second. *)

Calls == 10
Period == 1

PeriodTicks == Period * TicksPerSecond

period_remaining(op) == PeriodTicks - (clock - limiter[op].last_reset)

\* the decorator's state after the window test and `num_calls += 1`
Counted(op) ==
    LET L == IF period_remaining(op) <= 0
             THEN [last_reset |-> clock, num_calls |-> 0]
             ELSE limiter[op]
    IN  [L EXCEPT !.num_calls = @ + 1]

\* what load_data calls after `op` returned: the resolver is followed by the
\* index fetch, the index fetch and every content fetch by a content fetch or
\* by the return
Successors(op) ==
    IF op = "_get_cik_by_ticker" THEN {"_get_forms_by_cik"}
    ELSE {"_get_filing", "idle"}

\* load_data is called
StartRun ==
    /\ caller.at = "idle"
    /\ caller.runs < MaxRuns
    /\ caller' = [caller EXCEPT !.at = "_get_cik_by_ticker", !.runs = @ + 1]
    /\ UNCHANGED <<clock, limiter, executed>>
    /\ UNCHANGED <<pipeVars, resVars, accVars>>

\* a decorated method is called within its limit: its body runs
InvokeRuns ==
    /\ caller.at \in Ops
    /\ ~caller.sleeping
    /\ Counted(caller.at).num_calls <= Calls
    /\ limiter' = [limiter EXCEPT ![caller.at] = Counted(caller.at)]
    /\ executed' = [executed EXCEPT ![caller.at][clock] = @ + 1]
    /\ \E nxt \in Successors(caller.at) : caller' = [caller EXCEPT !.at = nxt]
    /\ UNCHANGED clock
    /\ UNCHANGED <<pipeVars, resVars, accVars>>

\* a decorated method is called over its limit: RateLimitException, caught by
\* sleep_and_retry, which sleeps period_remaining and calls again
InvokeLimited ==
    /\ caller.at \in Ops
    /\ ~caller.sleeping
    /\ Counted(caller.at).num_calls > Calls
    /\ limiter' = [limiter EXCEPT ![caller.at] = Counted(caller.at)]
    /\ caller' = [caller EXCEPT !.sleeping = TRUE,
                                !.wake = clock + period_remaining(caller.at)]
    /\ UNCHANGED <<clock, executed>>
    /\ UNCHANGED <<pipeVars, resVars, accVars>>

\* time.sleep returns
Wake ==
    /\ caller.sleeping
    /\ clock >= caller.wake
    /\ caller' = [caller EXCEPT !.sleeping = FALSE]
    /\ UNCHANGED <<clock, limiter, executed>>
    /\ UNCHANGED <<pipeVars, resVars, accVars>>

\* time passes
Tick ==
    /\ clock < MaxTime
    /\ clock' = clock + 1
    /\ UNCHANGED <<limiter, executed, caller>>
    /\ UNCHANGED <<pipeVars, resVars, accVars>>

InitRate ==
    /\ environ = EmptyDict /\ load_kwargs = EmptyDict /\ pc = "rate"
    /\ PipeIdle
    /\ ResIdle
    /\ accIn = << >> /\ AccIdle
    /\ RateIdle

NextRate == StartRun \/ InvokeRuns \/ InvokeLimited \/ Wake \/ Tick

SpecRate == InitRate /\ [][NextRate]_vars

\* executions of op's body at the ticks t .. t + PeriodTicks - 1, one second
RECURSIVE InWindow(_, _, _)
InWindow(op, t, n) ==
    IF n = 0 \/ t > MaxTime THEN 0
    ELSE executed[op][t] + InWindow(op, t + 1, n - 1)

\* C5: for each of the three methods, at most 10 executions fall in any
\* one-second window, and a call over the limit is put to sleep until the
\* window has passed.
C5_TenPerSecond ==
    /\ \A op \in Ops : \A t \in 0..MaxTime : InWindow(op, t, PeriodTicks) <= Calls
    /\ caller.sleeping =>
          caller.wake >= limiter[caller.at].last_reset + PeriodTicks


-----------------------------------------------------------------------------
(* Properties of load_data *)

Min(a, b) == IF a <= b THEN a ELSE b

\* the entry's form type is the one asked for (any, when none was asked for)
IsRequested(f) == "form_type" \notin DOMAIN load_kwargs \/ load_kwargs.form_type = f

\* positions of the index entries the filter accepts
MatchIdx ==
    {j \in 1..n_filings(forms_descriptor) : IsRequested(Recent(forms_descriptor).form[j])}

IndexLoaded == pc \in {"loop", "done"}

FilingRequests == {j \in 1..Len(requests) : requests[j].op = "_get_filing"}

\* C1: a successful run returns exactly min(K, M) documents, the first
\* min(K, M) matching entries in index order (all M when no count is given),
\* so never more than K.
C1_ReturnsMinKM ==
    pc = "done" =>
        LET M    == Cardinality(MatchIdx)
            want == IF "k_forms" \in DOMAIN load_kwargs
                    THEN Min(load_kwargs.k_forms, M) ELSE M
            docs == returned.docs
        IN  /\ returned.set
            /\ Len(docs) = want
            /\ \A p \in 1..Len(docs) :
                 /\ docs[p].metadata.filing_name \in MatchIdx
                 /\ Cardinality({j \in MatchIdx : j < docs[p].metadata.filing_name}) = p - 1

\* C2: when the filter matches no entry of the index, no content fetch is ever
\* issued and the run returns the empty sequence.
C2_NoMatchNoFetch ==
    (IndexLoaded /\ MatchIdx = {}) =>
        /\ FilingRequests = {}
        /\ pc = "done" => (returned.set /\ returned.docs = << >>)

C2_Witness ==
    /\ pc = "done"
    /\ n_filings(forms_descriptor) >= 2
    /\ MatchIdx = {}
    /\ returned.set /\ returned.docs = << >>

\* C3: a failed resolution, index fetch or content fetch is the last request of
\* the run, the run ends with that error, and nothing is returned.
C3_FailureAborts ==
    /\ \A j \in 1..Len(requests) :
          requests[j].failed =>
              /\ j = Len(requests)
              /\ pc = "failed"
              /\ err.cause = "transport"
              /\ err.kind \in {"HTTPError", "ConnectionError"}
    /\ err # NoErr => (pc = "failed" /\ returned = NoReturn)
    /\ err.cause = "notfound" => Len(requests) = 1
    /\ err.cause = "malformed" => Len(requests) = 2

C3_Witness ==
    /\ pc = "failed"
    /\ Len(documents) >= 1
    /\ requests[Len(requests)].op = "_get_filing"
    /\ requests[Len(requests)].failed
    /\ returned = NoReturn

ConfigAbsent ==
    \/ ~Truthy(EnvGet(environ, "SEC_API_ORGANIZATION"))
    \/ ~Truthy(EnvGet(environ, "SEC_API_EMAIL"))

\* C4: with the organization or the email absent, the session builder fails
\* (AssertionError, the configuration error of the code) and no request of any
\* kind is issued.
C4_ConfigStops ==
    ConfigAbsent =>
        /\ requests = << >>
        /\ session = NoSession
        /\ (pc # "call" /\ "ticker" \in DOMAIN load_kwargs) =>
              (pc = "failed" /\ err = [kind |-> "AssertionError", cause |-> "config"])

C4_Witness ==
    /\ "SEC_API_EMAIL" \notin DOMAIN environ
    /\ Truthy(EnvGet(environ, "SEC_API_ORGANIZATION"))
    /\ pc = "failed"
    /\ err.kind = "AssertionError"
    /\ requests = << >>

\* the exception class the resolver raises when the pattern is not found
NotFoundKind == CikFromText(<< >>).raised

\* C9: a search page without the pattern fails the run with an error kind
\* that transport failures and malformed responses never have, and no
\* filing-index or content fetch is issued.
C9_NotFoundDistinct ==
    /\ err.cause = "notfound" =>
          /\ pc = "failed"
          /\ err.kind = NotFoundKind
          /\ Len(requests) = 1 /\ requests[1].op = "_get_cik_by_ticker"
    /\ err.cause \in {"transport", "malformed"} => err.kind # NotFoundKind

\* C10: the submissions request and every archive request of a run carry the
\* identifier the resolver returned, whatever the index's own "cik" field says.
C10_SameIdentifier ==
    \A j \in 1..Len(requests) :
        /\ requests[j].op = "_get_forms_by_cik" => requests[j].url.json_name[2] = cik
        /\ requests[j].op = "_get_filing" => requests[j].url.cik = cik

C10_Witness ==
    /\ pc = "done"
    /\ Len(returned.docs) >= 2
    /\ forms_descriptor.cik # cik
    /\ Cardinality(FilingRequests) >= 2

\* the accession number of the index entry a content fetch was made for
RawAccession(j) == Recent(forms_descriptor).accessionNumber[requests[j].entry]

\* C7 as stated: whatever the accession number, the one in an archive path is
\* exactly 18 characters long.
C7_Always18 ==
    \A j \in FilingRequests : Len(requests[j].url.accession_number) = AccessionWidth

\* C7: an accession number with at most 18 characters besides its dashes is
\* exactly 18 characters long in the archive path.
C7_AtMost18 ==
    \A j \in FilingRequests :
        Len(RemoveChar(RawAccession(j), "-")) <= AccessionWidth
            => Len(requests[j].url.accession_number) = AccessionWidth

C7_Witness ==
    \E j, k \in FilingRequests :
        /\ RawAccession(j) = AccShort
        /\ Len(requests[j].url.accession_number) = AccessionWidth
        /\ RawAccession(k) = _add_dashes(Acc18)
        /\ requests[k].url.accession_number = Acc18

-----------------------------------------------------------------------------
(* The resolver on search pages: cik_re.findall(response.text), results[0] *)

Segments ==
    { Occurrence(ID1), Occurrence(ID2), <<" ">>, <<"\n">>, <<"7">>,
      <<"C", "I", "K", "=", "1", "2", "3">> }

RECURSIVE Concat(_)
Concat(ss) == IF ss = << >> THEN << >> ELSE Head(ss) \o Concat(Tail(ss))

\* search pages: up to MaxSegs segments in a row
Bodies == {Concat(ss) : ss \in UNION {[1..n -> Segments] : n \in 0..MaxSegs}}

InitResolver ==
    /\ environ = EmptyDict /\ load_kwargs = EmptyDict /\ pc = "response"
    /\ PipeIdle
    /\ body \in Bodies /\ results = << >> /\ resolved = NoResult
    /\ accIn = << >> /\ AccIdle
    /\ RateIdle

\* results = cik_re.findall(response.text)
ResFindAll ==
    /\ pc = "response"
    /\ results' = FindAll(body)
    /\ pc' = "results"
    /\ UNCHANGED <<body, resolved>>
    /\ UNCHANGED <<environ, load_kwargs, session, cik, forms_descriptor, documents,
                   idx, requests, returned, err>>
    /\ UNCHANGED <<accVars, rateVars>>

\* return str(results[0])
ResReturn ==
    /\ pc = "results"
    /\ resolved' = CikFromText(body)
    /\ pc' = "resolved"
    /\ UNCHANGED <<body, results>>
    /\ UNCHANGED <<environ, load_kwargs, session, cik, forms_descriptor, documents,
                   idx, requests, returned, err>>
    /\ UNCHANGED <<accVars, rateVars>>

NextResolver == ResFindAll \/ ResReturn

SpecResolver == InitResolver /\ [][NextResolver]_vars

Occurrences(text) == {p \in 1..Len(text) : OccursAt(text, p)}

MinOf(S) == CHOOSE x \in S : \A y \in S : x <= y

\* C8: when the page holds the pattern several times, on one line or on
\* several, the resolver returns the identifier of the first occurrence.
C8_FirstOccurrence ==
    (pc = "resolved" /\ Occurrences(body) # {}) =>
        /\ resolved.raised = ""
        /\ resolved.value = Group(body, MinOf(Occurrences(body)))

-----------------------------------------------------------------------------
(* The accession-number conversions on digit strings *)

\* the digits (off + j * step) mod 10 for j = 1 .. n
DigitString(n, off, step) == [j \in 1..n |-> Digits[((off + j * step) % 10) + 1]]

AccInputs == {DigitString(n, off, step) : n \in 0..MaxAccLen, off \in 0..9, step \in {0, 1, 3}}

InitAccession ==
    /\ environ = EmptyDict /\ load_kwargs = EmptyDict /\ pc = "no_dash"
    /\ PipeIdle
    /\ ResIdle
    /\ accIn \in AccInputs /\ AccIdle
    /\ RateIdle

AddDashes ==
    /\ pc = "no_dash"
    /\ accDashed' = _add_dashes(accIn)
    /\ pc' = "dashed"
    /\ UNCHANGED <<accIn, accOut>>
    /\ UNCHANGED <<environ, load_kwargs, session, cik, forms_descriptor, documents,
                   idx, requests, returned, err>>
    /\ UNCHANGED <<resVars, rateVars>>

DropDashes ==
    /\ pc = "dashed"
    /\ accOut' = _drop_dashes(accDashed)
    /\ pc' = "round_trip"
    /\ UNCHANGED <<accIn, accDashed>>
    /\ UNCHANGED <<environ, load_kwargs, session, cik, forms_descriptor, documents,
                   idx, requests, returned, err>>
    /\ UNCHANGED <<resVars, rateVars>>

NextAccession == AddDashes \/ DropDashes

SpecAccession == InitAccession /\ [][NextAccession]_vars

\* out is s with zeros in front up to 18 characters (s itself when longer)
PaddedCopy(s, out) ==
    LET pad == Len(out) - Len(s)
    IN  /\ Len(out) = (IF Len(s) >= AccessionWidth THEN Len(s) ELSE AccessionWidth)
        /\ \A j \in 1..Len(out) :
             out[j] = (IF j <= pad THEN "0" ELSE s[j - pad])

\* C6 as stated: for every string of 10 or more digits the round trip gives the
\* string zero-padded to 18 characters, and that is exactly 18 characters long.
C6_RoundTrip18 ==
    (pc = "round_trip" /\ Len(accIn) >= 10) =>
        /\ PaddedCopy(accIn, accOut)
        /\ Len(accOut) = AccessionWidth

\* C6: for every string of 10 or more digits the round trip gives the string
\* zero-padded to 18 characters; it is exactly 18 characters long when the
\* string has at most 18 digits.
C6_RoundTrip ==
    (pc = "round_trip" /\ Len(accIn) >= 10) =>
        /\ PaddedCopy(accIn, accOut)
        /\ Len(accIn) <= AccessionWidth => Len(accOut) = AccessionWidth

C6_Witness ==
    /\ pc = "round_trip"
    /\ Len(accIn) = 13
    /\ accIn[1] # "0"
    /\ Len(accDashed) = 15
    /\ accDashed[11] = "-" /\ accDashed[14] = "-"
    /\ Len(accOut) = AccessionWidth
    /\ SubSeq(accOut, 6, 18) = accIn

=============================================================================
